---------------------------- MODULE Spec2Model ----------------------------
(***************************************************************************)
(* biski64: the Biski64Rng generator of src/src/lib.rs, its SplitMix64     *)
(* seeder and the rand_core entry points it implements.                    *)
(*                                                                         *)
(* Machine integers are modelled at their full width.  A u64 is a sequence *)
(* of 8 bytes, a u128 one of 16 bytes and a u32 one of 4 bytes, least      *)
(* significant byte first, so that wrapping arithmetic is arithmetic       *)
(* modulo 2^(8 * Len) and to_le_bytes / from_le_bytes are the identity on  *)
(* the representation.                                                     *)
(***************************************************************************)
EXTENDS Integers, Sequences, FiniteSets, TLC

-----------------------------------------------------------------------------
(* Fixed-width unsigned arithmetic on little-endian byte sequences.        *)

Byte == 0..255

Pow2(k) == CASE k = 0 -> 1 [] k = 1 -> 2 [] k = 2 -> 4 [] k = 3 -> 8
             [] k = 4 -> 16 [] k = 5 -> 32 [] k = 6 -> 64 [] k = 7 -> 128
             [] k = 8 -> 256

\* F applied to the value of v, with v computed once and before F is
\* entered (an operator's argument is otherwise computed where it is used).
Let1(v, F(_)) == CHOOSE r \in {F(x) : x \in {v}} : TRUE

\* A sequence given by a rule, its n elements computed once.
Tup(f, n) == SubSeq(f, 1, n)

ZeroW(n) == Tup([i \in 1..n |-> 0], n)

MaxW(n) == Tup([i \in 1..n |-> 255], n)

IsZero(a) == \A i \in 1..Len(a) : a[i] = 0

\* A small natural number as an n-byte word.
RECURSIVE NatW(_, _)
NatW(x, n) == IF n = 0 THEN <<>> ELSE <<x % 256>> \o NatW(x \div 256, n - 1)

\* `x as u128` (zero extension) and `x as u64`, `x as u32` (truncation).
ExtW(a, n) == Tup([i \in 1..n |-> IF i <= Len(a) THEN a[i] ELSE 0], n)

TruncW(a, n) == SubSeq(a, 1, n)

RECURSIVE AddCarry(_, _, _, _)
AddCarry(a, b, i, c) ==
  IF i > Len(a) THEN <<>>
  ELSE LET s == a[i] + b[i] + c
       IN  <<s % 256>> \o AddCarry(a, b, i + 1, s \div 256)

\* wrapping_add
AddW(a, b) == AddCarry(a, b, 1, 0)

RECURSIVE SubBorrow(_, _, _, _)
SubBorrow(a, b, i, c) ==
  IF i > Len(a) THEN <<>>
  ELSE LET s == a[i] - b[i] - c
       IN  IF s < 0 THEN <<s + 256>> \o SubBorrow(a, b, i + 1, 1)
           ELSE <<s>> \o SubBorrow(a, b, i + 1, 0)

\* wrapping_sub
SubW(a, b) == SubBorrow(a, b, 1, 0)

\* a < b, comparing from the most significant byte down.
RECURSIVE LessFrom(_, _, _)
LessFrom(a, b, i) ==
  IF i = 0 THEN FALSE
  ELSE IF a[i] # b[i] THEN a[i] < b[i]
  ELSE LessFrom(a, b, i - 1)

LessW(a, b) == LessFrom(a, b, Len(a))

RECURSIVE ColumnSum(_, _, _, _)
ColumnSum(a, b, k, i) ==
  IF i > k THEN 0 ELSE a[i] * b[k + 1 - i] + ColumnSum(a, b, k, i + 1)

RECURSIVE MulCarry(_, _, _, _)
MulCarry(a, b, k, c) ==
  IF k > Len(a) THEN <<>>
  ELSE LET s == ColumnSum(a, b, k, 1) + c
       IN  <<s % 256>> \o MulCarry(a, b, k + 1, s \div 256)

\* wrapping_mul
MulW(a, b) == MulCarry(a, b, 1, 0)

\* x ^ y on numbers, bit by bit.
RECURSIVE XorBits(_, _)
XorBits(x, y) ==
  IF x = 0 THEN y
  ELSE IF y = 0 THEN x
  ELSE ((x + y) % 2) + 2 * XorBits(x \div 2, y \div 2)

\* x ^ y for 0 <= x, y < 16, tabulated: XorNibble[x + 1][y + 1].
XorNibble == Tup([x \in 1..16 |-> Tup([y \in 1..16 |-> XorBits(x - 1, y - 1)], 16)], 16)

XorByte(x, y) ==
  16 * XorNibble[(x \div 16) + 1][(y \div 16) + 1] + XorNibble[(x % 16) + 1][(y % 16) + 1]

\* ^
XorW(a, b) == Tup([i \in 1..Len(a) |-> XorByte(a[i], b[i])], Len(a))

\* a >> k, for 0 <= k < 8 * Len(a)
ShrW(a, k) ==
  LET n == Len(a)
      q == k \div 8
      r == k % 8
      at(i) == IF i <= n THEN a[i] ELSE 0
  IN  Tup([i \in 1..n |->
             (at(i + q) \div Pow2(r) + at(i + q + 1) * Pow2(8 - r)) % 256], n)

\* a << k, for 0 <= k < 8 * Len(a)
ShlW(a, k) ==
  LET n == Len(a)
      q == k \div 8
      r == k % 8
      at(i) == IF i >= 1 THEN a[i] ELSE 0
  IN  Tup([i \in 1..n |->
             (at(i - q) * Pow2(r) + at(i - q - 1) \div Pow2(8 - r)) % 256], n)

\* rotate_left by k bits, taken modulo the width: byte i of the result takes
\* its high bits from byte i - q and its low bits from byte i - q - 1, the
\* byte positions counted around the word.
RotlW(a, k) ==
  LET n == Len(a)
      q == (k % (8 * n)) \div 8
      r == k % 8
      at(i) == a[((i - 1) % n) + 1]
  IN  Tup([i \in 1..n |->
             ((at(i - q) * Pow2(r)) % 256) + (at(i - q - 1) \div Pow2(8 - r))], n)

\* rotate_right by k bits is rotate_left by width - k bits.
RotrW(a, k) == RotlW(a, 8 * Len(a) - (k % (8 * Len(a))))

\* The value of a word of at most 3 bytes as a number.
RECURSIVE ValW(_, _)
ValW(a, i) == IF i > Len(a) THEN 0 ELSE a[i] + 256 * ValW(a, i + 1)

\* Bit k (0 = least significant) of a.
BitW(a, k) == (a[(k \div 8) + 1] \div Pow2(k % 8)) % 2

\* a / d on unsigned words of one width, d # 0: binary long division from
\* the most significant bit down.  DivBit brings down bit k of a into the
\* running remainder st.rem and shifts the quotient bit into st.quo.
DivBit(a, d, k, st) ==
  LET n  == Len(a)
      r2 == AddW(ShlW(st.rem, 1), NatW(BitW(a, k), n))
      \* rem < d before the shift, so an overflow of the shift means the
      \* true remainder is >= 2^(8n) > d
      ov == BitW(st.rem, 8 * n - 1) = 1
      q2 == ShlW(st.quo, 1)
  IN  IF ov \/ ~LessW(r2, d)
      THEN [rem |-> SubW(r2, d), quo |-> AddW(q2, NatW(1, n))]
      ELSE [rem |-> r2, quo |-> q2]

\* The eight bits of byte i of a, most significant first.
DivByte(a, d, i, st) ==
  LET k  == 8 * (i - 1)
      s7 == DivBit(a, d, k + 7, st)
      s6 == DivBit(a, d, k + 6, s7)
      s5 == DivBit(a, d, k + 5, s6)
      s4 == DivBit(a, d, k + 4, s5)
      s3 == DivBit(a, d, k + 3, s4)
      s2 == DivBit(a, d, k + 2, s3)
      s1 == DivBit(a, d, k + 1, s2)
  IN  DivBit(a, d, k, s1)

RECURSIVE DivFrom(_, _, _, _)
DivFrom(a, d, i, st) ==
  IF i = 0 THEN st.quo
  ELSE Let1(DivByte(a, d, i, st), LAMBDA nx : DivFrom(a, d, i - 1, nx))

DivW(a, d) ==
  DivFrom(a, d, Len(a), [rem |-> ZeroW(Len(a)), quo |-> ZeroW(Len(a))])

-----------------------------------------------------------------------------
(* SplitMix64, the seeder.                                                 *)

GOLDEN_GAMMA == <<21, 124, 74, 127, 185, 121, 55, 158>>   \* 0x9e3779b97f4a7c15

MIX_MUL_1 == <<185, 229, 228, 28, 109, 71, 88, 191>>      \* 0xbf58476d1ce4e5b9

MIX_MUL_2 == <<235, 17, 49, 19, 187, 73, 208, 148>>       \* 0x94d049bb133111eb

\* SplitMix64::new
SplitMix64New(seed) == [state |-> seed]

\* The output mixing of SplitMix64::next, applied to the advanced state.
SplitMix64Mix(state) ==
  LET z1 == MulW(XorW(state, ShrW(state, 30)), MIX_MUL_1)
      z2 == MulW(XorW(z1, ShrW(z1, 27)), MIX_MUL_2)
  IN  XorW(z2, ShrW(z2, 31))

\* SplitMix64::next: the seeder after the call and the value returned.
SplitMix64Next(sm) ==
  LET st == AddW(sm.state, GOLDEN_GAMMA)
  IN  [seeder |-> [state |-> st], value |-> SplitMix64Mix(st)]

-----------------------------------------------------------------------------
(* Biski64Rng: the state transition and the constructors, as functions.    *)

INCREMENT == <<153, 153, 153, 153, 153, 153, 153, 153>>   \* 0x9999999999999999

WARM_UP == 16

\* struct Biski64Rng
Biski64Rng(f, m, l) == [fast_loop |-> f, mix |-> m, loop_mix |-> l]

\* The value next_u64 returns from rng.
NextOutput(rng) == AddW(rng.mix, rng.loop_mix)

\* NextState with the counter left where it is.
NextState_FrozenCounter(rng) ==
  Biski64Rng(rng.fast_loop,
             AddW(RotlW(rng.mix, 16), RotlW(rng.loop_mix, 40)),
             XorW(rng.fast_loop, rng.mix))

\* The state next_u64 leaves behind: the tuple assignment reads the old
\* fields on its right-hand side.
NextState(rng) ==
  Biski64Rng(AddW(rng.fast_loop, INCREMENT),
             AddW(RotlW(rng.mix, 16), RotlW(rng.loop_mix, 40)),
             XorW(rng.fast_loop, rng.mix))

\* rng after k calls of next_u64 whose results are discarded.
RECURSIVE Discard(_, _)
Discard(rng, k) ==
  IF k = 0 THEN rng
  ELSE Let1(NextState(rng), LAMBDA next : Discard(next, k - 1))

\* SeedLoop with `||` for `&&`: it draws again while any word is 0.
RECURSIVE SeedLoop_AnyZero(_, _, _)
SeedLoop_AnyZero(seeder, s, iters) ==
  IF ~(IsZero(s[1]) \/ IsZero(s[2]) \/ IsZero(s[3]))
  THEN [s |-> s, iters |-> iters]
  ELSE Let1(SplitMix64Next(seeder), LAMBDA d0 :
       Let1(SplitMix64Next(d0.seeder), LAMBDA d1 :
       Let1(SplitMix64Next(d1.seeder), LAMBDA d2 :
         SeedLoop_AnyZero(d2.seeder, <<d0.value, d1.value, d2.value>>, iters + 1))))

\* The loop `while s0 == 0 && s1 == 0 && s2 == 0 { three draws }`, entered
\* with s = <<s0, s1, s2>>; iters counts the executions of its body.
RECURSIVE SeedLoop(_, _, _)
SeedLoop(seeder, s, iters) ==
  IF ~(IsZero(s[1]) /\ IsZero(s[2]) /\ IsZero(s[3]))
  THEN [s |-> s, iters |-> iters]
  ELSE Let1(SplitMix64Next(seeder), LAMBDA d0 :
       Let1(SplitMix64Next(d0.seeder), LAMBDA d1 :
       Let1(SplitMix64Next(d1.seeder), LAMBDA d2 :
         SeedLoop(d2.seeder, <<d0.value, d1.value, d2.value>>, iters + 1))))

\* What a constructor hands back: the generator, and for the properties the
\* state it had before the warm-up, the three words d.s the seeding loop left
\* and the number d.iters of executions of the loop's body.
Built(pre, d) ==
  Let1(pre, LAMBDA p :
    [panic |-> "none", rng |-> Discard(p, WARM_UP), pre |-> p,
     drawn |-> d.s, iters |-> d.iters])

Panicked(msg) == [panic |-> msg]

\* u64::from_le_bytes and u32::to_le_bytes / u64::to_le_bytes: a word is kept
\* as its little-endian bytes, so byte i of the array is byte i of the word.
FromLeBytes(b) == Tup([i \in 1..Len(b) |-> b[i]], Len(b))

ToLeBytes(w) == Tup([i \in 1..Len(w) |-> w[i]], Len(w))

\* StreamOffset without the multiplication by the increment.
StreamOffset_NoIncrement(stream_index, total_streams) ==
  LET cycles_per_stream == DivW(ExtW(MaxW(8), 16), ExtW(total_streams, 16))
  IN  TruncW(MulW(ExtW(stream_index, 16), cycles_per_stream), 8)

\* The stream offset: the arithmetic is done in u128 and cast back to u64.
StreamOffset(stream_index, total_streams) ==
  LET cycles_per_stream == DivW(ExtW(MaxW(8), 16), ExtW(total_streams, 16))
      offset == MulW(MulW(ExtW(stream_index, 16), cycles_per_stream),
                     ExtW(INCREMENT, 16))
  IN  TruncW(offset, 8)

\* FinalFastLoop without the offset: every stream starts at the base.
FinalFastLoop_NoOffset(base_fast_loop, stream_index, total_streams) ==
  base_fast_loop

FinalFastLoop(base_fast_loop, stream_index, total_streams) ==
  IF LessW(NatW(1, 8), total_streams)
  THEN AddW(base_fast_loop, StreamOffset(stream_index, total_streams))
  ELSE base_fast_loop

\* FromSeedForStream with the two assertions in the other order.
FromSeedForStream_IndexFirst(seed, stream_index, total_streams) ==
  IF ~LessW(stream_index, total_streams)
  THEN Panicked("Stream index must be less than total streams.")
  ELSE IF LessW(total_streams, NatW(1, 8))
  THEN Panicked("Total number of streams must be at least 1.")
  ELSE LET d == SeedLoop(SplitMix64New(seed),
                         <<ZeroW(8), ZeroW(8), ZeroW(8)>>, 0)
       IN  Built(Biski64Rng(FinalFastLoop(d.s[1], stream_index, total_streams),
                            d.s[2], d.s[3]),
                 d)

\* Biski64Rng::from_seed_for_stream
FromSeedForStream(seed, stream_index, total_streams) ==
  IF LessW(total_streams, NatW(1, 8))
  THEN Panicked("Total number of streams must be at least 1.")
  ELSE IF ~LessW(stream_index, total_streams)
  THEN Panicked("Stream index must be less than total streams.")
  ELSE LET d == SeedLoop(SplitMix64New(seed),
                         <<ZeroW(8), ZeroW(8), ZeroW(8)>>, 0)
       IN  Built(Biski64Rng(FinalFastLoop(d.s[1], stream_index, total_streams),
                            d.s[2], d.s[3]),
                 d)


\* FromSeed with the one word drawn first in all three fields.
FromSeed_OneWord(seed) ==
  LET seed_for_seeder == FromLeBytes(SubSeq(seed, 1, 8))
      d == SeedLoop(SplitMix64New(seed_for_seeder),
                    <<ZeroW(8), ZeroW(8), ZeroW(8)>>, 0)
  IN  Built(Biski64Rng(d.s[1], d.s[1], d.s[1]), d)

\* FromSeed reading seed[8..16] for seed[0..8].
FromSeed_SecondWord(seed) ==
  LET seed_for_seeder == FromLeBytes(SubSeq(seed, 9, 16))
      d == SeedLoop(SplitMix64New(seed_for_seeder),
                    <<ZeroW(8), ZeroW(8), ZeroW(8)>>, 0)
  IN  Built(Biski64Rng(d.s[1], d.s[2], d.s[3]), d)

\* <Biski64Rng as SeedableRng>::from_seed
FromSeed(seed) ==
  LET seed_for_seeder == FromLeBytes(SubSeq(seed, 1, 8))
      d == SeedLoop(SplitMix64New(seed_for_seeder),
                    <<ZeroW(8), ZeroW(8), ZeroW(8)>>, 0)
  IN  Built(Biski64Rng(d.s[1], d.s[2], d.s[3]), d)

\* SeedableRng::seed_from_u64 is not overridden, so it is the trait's provided
\* method: the seed array is filled four bytes at a time from a PCG32
\* sequence started at the argument, and handed to from_seed.
PCG_MUL == <<45, 127, 149, 76, 45, 244, 81, 88>>          \* 6364136223846793005

PCG_INC == <<243, 23, 190, 111, 228, 84, 118, 161>>       \* 11634580027462260723

Pcg32Advance(state) == AddW(MulW(state, PCG_MUL), PCG_INC)

Pcg32Output(state) ==
  LET xorshifted == TruncW(ShrW(XorW(ShrW(state, 18), state), 27), 4)
      rot == ValW(TruncW(ShrW(state, 59), 1), 1)
  IN  ToLeBytes(RotrW(xorshifted, rot))

RECURSIVE Pcg32Fill(_, _)
Pcg32Fill(state, chunks) ==
  IF chunks = 0 THEN <<>>
  ELSE Let1(Pcg32Advance(state), LAMBDA st :
         Pcg32Output(st) \o Pcg32Fill(st, chunks - 1))

SEED_LEN == 32

SeedFromU64(state) == FromSeed(Pcg32Fill(state, SEED_LEN \div 4))

\* High32 without the shift: the low half.
High32_NoShift(x) == TruncW(x, 4)

\* The high half of a u64: `(x >> 32) as u32`.
High32(x) == TruncW(ShrW(x, 32), 4)

\* RngCore::next_u64: the generator after the call and the value returned.
NextU64(rng) == [rng |-> NextState(rng), value |-> NextOutput(rng)]

\* NextU32 keeping the low half.
NextU32_LowHalf(rng) ==
  Let1(NextU64(rng), LAMBDA r :
    [rng |-> r.rng, value |-> TruncW(r.value, 4), word |-> r.value])

\* RngCore::next_u32: one call of next_u64, of which the high half is kept.
\* `word` is the u64 that call returned.
NextU32(rng) ==
  Let1(NextU64(rng), LAMBDA r :
    [rng |-> r.rng, value |-> High32(r.value), word |-> r.value])

\* dest with the bytes of chunk written from position pos on.
CopyFromSlice(dest, pos, chunk) ==
  Tup([i \in 1..Len(dest) |->
         IF i >= pos /\ i < pos + Len(chunk) THEN chunk[i - pos + 1] ELSE dest[i]],
      Len(dest))

\* RngCore::fill_bytes is rand_core::impls::fill_bytes_via_next: whole chunks
\* of 8 bytes from next_u64 while 8 or more bytes are left, then a rest of
\* 5 to 7 bytes from one more next_u64 and a rest of 1 to 4 bytes from one
\* next_u32.  pos is the first byte of dest not yet written, calls the
\* number of next_u64 / next_u32 calls made so far and word the u64 the last
\* of them produced.
RECURSIVE FillBytesViaNext(_, _, _, _, _)
FillBytesViaNext(rng, dest, pos, calls, word) ==
  LET left == Len(dest) - pos + 1
  IN  IF left >= 8
      THEN Let1(NextU64(rng), LAMBDA r :
             FillBytesViaNext(r.rng,
                              CopyFromSlice(dest, pos, ToLeBytes(r.value)),
                              pos + 8, calls + 1, r.value))
      ELSE IF left > 4
      THEN Let1(NextU64(rng), LAMBDA r :
             [rng |-> r.rng,
              dest |-> CopyFromSlice(dest, pos, SubSeq(ToLeBytes(r.value), 1, left)),
              calls |-> calls + 1, word |-> r.value])
      ELSE IF left > 0
      THEN Let1(NextU32(rng), LAMBDA r :
             [rng |-> r.rng,
              dest |-> CopyFromSlice(dest, pos, SubSeq(ToLeBytes(r.value), 1, left)),
              calls |-> calls + 1, word |-> r.word])
      ELSE [rng |-> rng, dest |-> dest, calls |-> calls, word |-> word]

FillBytes(rng, dest, word) == FillBytesViaNext(rng, dest, 1, 0, word)

-----------------------------------------------------------------------------
(* The inputs the callers draw from.                                       *)

\* The most next_u64 steps one generator is driven through after it is built.
MaxSteps == 3

\* The longest buffer handed to fill_bytes.
MaxFill == 17

\* Stream counts and stream indexes run over 0..MaxStreams.
MaxStreams == 4

\* 12345 (the seed of the demo, the benchmark and the regression test),
\* 123456789 (the seed of the stream test), the three seeds that bring the
\* SplitMix64 accumulator to 0 at the first, second and third draw, and the
\* seed whose first draw is cancelled by the offset of stream 1 of 2.
Seeds ==
  { <<57, 48, 0, 0, 0, 0, 0, 0>>,
    <<21, 205, 91, 7, 0, 0, 0, 0>>,
    <<235, 131, 181, 128, 70, 134, 200, 97>>,
    <<214, 7, 107, 1, 141, 12, 145, 195>>,
    <<193, 139, 32, 130, 211, 146, 89, 37>>,
    <<92, 34, 22, 87, 139, 67, 223, 119>> }

\* Bytes 8..31 of the 32-byte seeds: all 0, and all 0xA5.
SeedTails == { Tup([i \in 1..24 |-> 0], 24), Tup([i \in 1..24 |-> 165], 24) }

SeedArrays == { ToLeBytes(s) \o t : s \in Seeds, t \in SeedTails }

\* <<stream_index, total_streams>>: every pair over 0..MaxStreams, and two
\* streams out of 2^64 - 1.
StreamArgs ==
  { <<NatW(i, 8), NatW(n, 8)>> : i \in 0..MaxStreams, n \in 0..MaxStreams }
  \cup { << <<136, 141, 106, 221, 92, 78, 220, 109>>, MaxW(8) >>,
         << <<202, 137, 24, 131, 104, 97, 89, 7>>, MaxW(8) >> }

\* A byte of a buffer that nothing has written.
Unwritten == 0 - 1

Buffer(n) == Tup([i \in 1..n |-> Unwritten], n)

-----------------------------------------------------------------------------
(* The callers: generators are built, driven and never shared.             *)

\* The constructor calls the callers make, each with its arguments.
SeedFromU64Calls == { [op |-> "seed_from_u64", seed |-> s] : s \in Seeds }

FromSeedCalls == { [op |-> "from_seed", seed |-> b] : b \in SeedArrays }

FromSeedForStreamCalls ==
  { [op |-> "from_seed_for_stream", seed |-> s, stream_index |-> a[1],
     total_streams |-> a[2]] : s \in Seeds, a \in StreamArgs }

ConstructorCalls == SeedFromU64Calls \cup FromSeedCalls \cup FromSeedForStreamCalls

\* What the constructor call c returns.
Construct(c) ==
  CASE c.op = "seed_from_u64" -> SeedFromU64(c.seed)
    [] c.op = "from_seed" -> FromSeed(c.seed)
    [] c.op = "from_seed_for_stream" ->
         FromSeedForStream(c.seed, c.stream_index, c.total_streams)

\* A constructor reads its arguments and nothing else, so what the calls
\* return is computed once for all of them.
Constructed ==
  Let1([c \in ConstructorCalls |-> Construct(c)],
       LAMBDA t : IF DOMAIN t = ConstructorCalls /\ t = t THEN t ELSE t)

VARIABLES
  gen,     \* gen[i]: generator i, or NoGen before it is built
  last,    \* the last call made: its name, its arguments and what it returned
  panic    \* the message of the panic that ended the program, or "none"

vars == <<gen, last, panic>>

Instances == {1, 2}

NoGen == [built |-> FALSE]

\* A generator as the constructor call ctor returned it in b.  Beside the
\* generator itself (rng) the record keeps what the properties speak of: the
\* call that built it, the state before the warm-up, the words the seeding
\* loop left and the executions of its body, the state the constructor
\* returned, the number of next_u64 steps taken since, and the u64 the last
\* of them produced.
NewGen(ctor, b) ==
  [built |-> TRUE, rng |-> b.rng, ctor |-> ctor, pre |-> b.pre,
   drawn |-> b.drawn, iters |-> b.iters, start |-> b.rng, steps |-> 0,
   word |-> <<>>]

Stepped(g, rng, calls, word) ==
  [g EXCEPT !.rng = rng, !.steps = g.steps + calls, !.word = word]

\* let gen_i = <the constructor call c>: a failed assert! panics, and no
\* generator is returned.
Build(i, c) ==
  /\ panic = "none"
  /\ ~gen[i].built
  /\ LET b == Constructed[c]
     IN  IF b.panic # "none"
         THEN /\ panic' = b.panic
              /\ UNCHANGED gen
         ELSE /\ gen' = [gen EXCEPT ![i] = NewGen(c, b)]
              /\ UNCHANGED panic
  /\ last' = [call |-> c, inst |-> i]

Init ==
  /\ gen = [i \in Instances |-> NoGen]
  /\ last = [call |-> [op |-> "none"]]
  /\ panic = "none"

\* let gen_i = Biski64Rng::seed_from_u64(state)
SeedFromU64Call(i, state) == Build(i, [op |-> "seed_from_u64", seed |-> state])

\* let gen_i = Biski64Rng::from_seed(seed)
FromSeedCall(i, seed) == Build(i, [op |-> "from_seed", seed |-> seed])

\* let gen_i = Biski64Rng::from_seed_for_stream(seed, stream_index, total_streams)
FromSeedForStreamCall(i, seed, stream_index, total_streams) ==
  Build(i, [op |-> "from_seed_for_stream", seed |-> seed,
            stream_index |-> stream_index, total_streams |-> total_streams])

\* NextU64Call on a state all generators share (generator 1's) instead of
\* the generator's own.
NextU64Call_SharedState(i) ==
  /\ panic = "none"
  /\ gen[i].built
  /\ gen[1].built
  /\ gen[i].steps < MaxSteps
  /\ LET r == NextU64(gen[1].rng)
     IN  /\ gen' = [gen EXCEPT ![i] = Stepped(gen[i], r.rng, 1, r.value)]
         /\ last' = [call |-> [op |-> "next_u64"], inst |-> i, before |-> gen[1].rng,
                     value |-> r.value]
  /\ UNCHANGED panic

\* gen_i.next_u64()
NextU64Call(i) ==
  /\ panic = "none"
  /\ gen[i].built
  /\ gen[i].steps < MaxSteps
  /\ LET r == NextU64(gen[i].rng)
     IN  /\ gen' = [gen EXCEPT ![i] = Stepped(gen[i], r.rng, 1, r.value)]
         /\ last' = [call |-> [op |-> "next_u64"], inst |-> i, before |-> gen[i].rng,
                     value |-> r.value]
  /\ UNCHANGED panic

\* gen_i.next_u32()
NextU32Call(i) ==
  /\ panic = "none"
  /\ gen[i].built
  /\ gen[i].steps < MaxSteps
  /\ LET r == NextU32(gen[i].rng)
     IN  /\ gen' = [gen EXCEPT ![i] = Stepped(gen[i], r.rng, 1, r.word)]
         /\ last' = [call |-> [op |-> "next_u32"], inst |-> i, before |-> gen[i].rng,
                     value |-> r.value]
  /\ UNCHANGED panic

\* gen_i.fill_bytes(&mut dest) with a buffer of n bytes
FillBytesCall(i, n) ==
  /\ panic = "none"
  /\ gen[i].built
  /\ gen[i].steps + (n + 7) \div 8 <= MaxSteps
  /\ LET r == FillBytes(gen[i].rng, Buffer(n), gen[i].word)
     IN  /\ gen' = [gen EXCEPT ![i] = Stepped(gen[i], r.rng, r.calls, r.word)]
         /\ last' = [call |-> [op |-> "fill_bytes", n |-> n], inst |-> i,
                     before |-> gen[i].rng, dest |-> r.dest, calls |-> r.calls]
  /\ UNCHANGED panic

\* One owner, one generator, the whole interface.
Next ==
  \/ \E s \in Seeds : SeedFromU64Call(1, s)
  \/ \E b \in SeedArrays : FromSeedCall(1, b)
  \/ \E s \in Seeds, a \in StreamArgs : FromSeedForStreamCall(1, s, a[1], a[2])
  \/ NextU64Call(1)
  \/ NextU32Call(1)
  \/ \E n \in 0..MaxFill : FillBytesCall(1, n)

Spec == Init /\ [][Next]_vars

\* Two generators side by side, each built by any constructor and stepped
\* with next_u64, over the seed of the stream test and the seed whose first
\* draw the offset of stream 1 of 2 cancels.
PairSeeds ==
  { <<21, 205, 91, 7, 0, 0, 0, 0>>, <<92, 34, 22, 87, 139, 67, 223, 119>> }

PairSeedArrays == { ToLeBytes(s) \o t : s \in PairSeeds, t \in SeedTails }

NextPair ==
  \/ \E i \in Instances, s \in PairSeeds : SeedFromU64Call(i, s)
  \/ \E i \in Instances, b \in PairSeedArrays : FromSeedCall(i, b)
  \/ \E i \in Instances, s \in PairSeeds, a \in StreamArgs :
       FromSeedForStreamCall(i, s, a[1], a[2])
  \/ \E i \in Instances : NextU64Call(i)

SpecPair == Init /\ [][NextPair]_vars

-----------------------------------------------------------------------------
(* Properties.                                                             *)

\* Generator i has just been returned by its constructor.
JustBuilt(i) == gen[i].built /\ last.inst = i /\ last.call = gen[i].ctor

NonZero(rng) ==
  ~(IsZero(rng.fast_loop) /\ IsZero(rng.mix) /\ IsZero(rng.loop_mix))

\* rng and the k states that follow it are all non-zero.
RECURSIVE NonZeroFor(_, _)
NonZeroFor(rng, k) ==
  /\ NonZero(rng)
  /\ \/ k = 0
     \/ Let1(NextState(rng), LAMBDA next : NonZeroFor(next, k - 1))

\* The little-endian bytes of the next k values of next_u64 from rng on.
RECURSIVE OutputBytes(_, _)
OutputBytes(rng, k) ==
  IF k = 0 THEN <<>>
  ELSE Let1(NextState(rng), LAMBDA next :
         ToLeBytes(NextOutput(rng)) \o OutputBytes(next, k - 1))

\* The u64 the seeder of the constructor call c is started with.
SeederSeed(c) ==
  CASE c.op = "seed_from_u64" -> FromLeBytes(SubSeq(Pcg32Fill(c.seed, 2), 1, 8))
    [] c.op = "from_seed" -> FromLeBytes(SubSeq(c.seed, 1, 8))
    [] c.op = "from_seed_for_stream" -> c.seed

\* The call from_seed_for_stream(s, i, n), i and n small numbers.
StreamCall(s, i, n) ==
  [op |-> "from_seed_for_stream", seed |-> s, stream_index |-> NatW(i, 8),
   total_streams |-> NatW(n, 8)]

\* 2^63
HalfPeriod == <<0, 0, 0, 0, 0, 0, 0, 128>>

\* C2. Minimum period: every next_u64 and next_u32 call (and every one of the
\* calls fill_bytes makes) adds the odd constant 0x9999999999999999 to
\* fast_loop modulo 2^64 and nothing else writes it, so after k steps
\* fast_loop is its value at construction plus k times the constant; the
\* constant is odd and 2^63 times it is not 0 modulo 2^64, so its additive
\* order is 2^64 and the word, hence the state, does not repeat within 2^64
\* steps.
C2_FastLoopCounter ==
  /\ INCREMENT[1] % 2 = 1
  /\ ~IsZero(MulW(HalfPeriod, INCREMENT))
  /\ \A i \in Instances : gen[i].built =>
       /\ gen[i].rng.fast_loop =
            AddW(gen[i].start.fast_loop, MulW(NatW(gen[i].steps, 8), INCREMENT))
       /\ gen[i].steps > 0 =>
            /\ gen[i].rng.fast_loop # gen[i].start.fast_loop
            /\ gen[i].rng # gen[i].start
  /\ last.call.op \in {"next_u64", "next_u32"} =>
       gen[last.inst].rng.fast_loop = AddW(last.before.fast_loop, INCREMENT)
  /\ last.call.op = "fill_bytes" =>
       gen[last.inst].rng.fast_loop =
         AddW(last.before.fast_loop, MulW(NatW(last.calls, 8), INCREMENT))

C2_Witness ==
  /\ gen[1].built
  /\ gen[1].steps = MaxSteps
  /\ last.call.op = "next_u64"

\* C3. Non-zero state: a generator any constructor returned is never in the
\* state whose three words are all zero: not before the warm-up (the stream
\* offset included), not during the warm-up, not when returned and not after
\* any of the calls made on it.
C3_NonZeroState ==
  \A i \in Instances : gen[i].built =>
    /\ NonZero(gen[i].pre)
    /\ NonZero(gen[i].start)
    /\ NonZero(gen[i].rng)
    /\ JustBuilt(i) => NonZeroFor(gen[i].pre, WARM_UP)

\* The offset of stream 1 of 2 has cancelled the first word drawn, and the
\* generator has been stepped.
C3_Witness ==
  /\ gen[1].built
  /\ gen[1].ctor.op = "from_seed_for_stream"
  /\ ~IsZero(gen[1].drawn[1])
  /\ IsZero(gen[1].pre.fast_loop)
  /\ gen[1].steps >= 2

\* C4. Precondition rejection: from_seed_for_stream panics, returning no
\* generator, with the stream-count message when total_streams = 0 (also
\* when stream_index >= total_streams holds as well) and with the
\* stream-index message when stream_index >= total_streams >= 1; otherwise it
\* returns a generator; and no other call panics.
C4_PreconditionRejection ==
  IF last.call.op = "from_seed_for_stream"
  THEN LET c == last.call
       IN  IF IsZero(c.total_streams)
           THEN /\ panic = "Total number of streams must be at least 1."
                /\ ~gen[last.inst].built
           ELSE IF ~LessW(c.stream_index, c.total_streams)
           THEN /\ panic = "Stream index must be less than total streams."
                /\ ~gen[last.inst].built
           ELSE /\ panic = "none"
                /\ gen[last.inst].built
                /\ gen[last.inst].ctor = c
  ELSE panic = "none"

\* from_seed_for_stream(seed, 0, 0) has panicked.
C4_Witness ==
  /\ panic = "Total number of streams must be at least 1."
  /\ last.call.op = "from_seed_for_stream"
  /\ IsZero(last.call.stream_index)
  /\ IsZero(last.call.total_streams)

\* C8. 32-bit derivation: next_u32 returns bytes 4..7, the high 32 bits, of
\* the value next_u64 returns from the same state, and leaves the generator
\* in the state one next_u64 call leaves it in.
C8_NextU32 ==
  last.call.op = "next_u32" =>
    /\ last.value = SubSeq(NextOutput(last.before), 5, 8)
    /\ gen[last.inst].rng = NextU64(last.before).rng
    /\ gen[last.inst].word = NextU64(last.before).value

\* next_u32 has been called after two other steps.
C8_Witness ==
  /\ last.call.op = "next_u32"
  /\ gen[last.inst].steps = 3

\* C10. Construction terminates: the body of the seeding loop is executed
\* exactly once, its three draws being the SplitMix64 outputs of seed + G,
\* seed + 2G and seed + 3G, of which one is 0 exactly when its accumulator
\* is 0, so they are never all 0; the generator returned is the drawn state
\* after 16 steps.
C10_OneIteration ==
  /\ IsZero(SplitMix64Mix(ZeroW(8)))
  /\ \A i \in Instances : gen[i].built =>
       /\ gen[i].iters = 1
       /\ ~(IsZero(gen[i].drawn[1]) /\ IsZero(gen[i].drawn[2]) /\ IsZero(gen[i].drawn[3]))
       /\ JustBuilt(i) =>
            LET a0 == SeederSeed(gen[i].ctor)
                a1 == AddW(a0, GOLDEN_GAMMA)
                a2 == AddW(a1, GOLDEN_GAMMA)
                a3 == AddW(a2, GOLDEN_GAMMA)
            IN  /\ gen[i].drawn =
                     <<SplitMix64Mix(a1), SplitMix64Mix(a2), SplitMix64Mix(a3)>>
                /\ IsZero(gen[i].drawn[1]) <=> IsZero(a1)
                /\ IsZero(gen[i].drawn[2]) <=> IsZero(a2)
                /\ IsZero(gen[i].drawn[3]) <=> IsZero(a3)
                /\ gen[i].start = Discard(gen[i].pre, 16)

\* from_seed has returned for a seed whose first draw is 0.
C10_Witness ==
  /\ JustBuilt(1)
  /\ gen[1].ctor.op = "from_seed"
  /\ IsZero(gen[1].drawn[1])

\* C7 as stated. Byte-fill consistency: fill_bytes on a buffer of n bytes
\* writes the first n bytes of the little-endian encodings of the successive
\* next_u64 values, and advances the generator by ceil(n / 8) steps.
C7_FirstBytesOfOutputs ==
  last.call.op = "fill_bytes" =>
    LET n == last.call.n
        k == (n + 7) \div 8
    IN  /\ last.dest = SubSeq(OutputBytes(last.before, k), 1, n)
        /\ gen[last.inst].rng = Discard(last.before, k)

\* C7 as amended. fill_bytes on a buffer of n bytes writes every byte of it
\* and advances the generator by ceil(n / 8) steps; the whole chunks of 8 and
\* a rest of 5 to 7 bytes are the leading bytes of the little-endian
\* encodings of the successive next_u64 values, while a rest of 1 to 4 bytes
\* is taken from next_u32, so it is bytes 4.. (the high half) of the
\* encoding of that step's value.
C7_FillBytes ==
  last.call.op = "fill_bytes" =>
    LET n == last.call.n
        k == (n + 7) \div 8
        whole == 8 * (n \div 8)
        skip == IF n % 8 \in 1..4 THEN 4 ELSE 0
        bytes == OutputBytes(last.before, k)
    IN  /\ Len(last.dest) = n
        /\ \A p \in 1..n :
             last.dest[p] = IF p > whole THEN bytes[p + skip] ELSE bytes[p]
        /\ last.calls = k
        /\ gen[last.inst].rng = Discard(last.before, k)

\* fill_bytes has filled 11 bytes: one whole chunk and a rest of 3.
C7_Witness ==
  /\ last.call.op = "fill_bytes"
  /\ last.call.n = 11
  /\ gen[last.inst].steps = 2

\* The values test_sequence_from_known_seed pins for seed_from_u64(12345).
KnownSequence ==
  << <<82, 107, 247, 150, 223, 6, 187, 161>>,     \* 11653916018131561298
     <<249, 105, 26, 131, 209, 75, 57, 123>>,     \* 8879211503557437945
     <<48, 198, 230, 51, 88, 50, 128, 111>> >>    \* 8034477089638237744

\* The generator the seeder started with s yields: its first three outputs
\* as the state, after 16 steps.
DrawnAndWarmed(s) ==
  LET a1 == AddW(s, GOLDEN_GAMMA)
      a2 == AddW(a1, GOLDEN_GAMMA)
      a3 == AddW(a2, GOLDEN_GAMMA)
  IN  Discard(Biski64Rng(SplitMix64Mix(a1), SplitMix64Mix(a2), SplitMix64Mix(a3)), 16)

\* C9 as stated. Seeding equivalence: from_seed(b) yields the generator
\* seed_from_u64(s) yields for s the little-endian integer of b[0..8], which
\* is the first three Seed Expander outputs for s after 16 steps and what
\* from_seed_for_stream(s, 0, 1) yields.
C9_SameAsSeedFromU64 ==
  \A i \in Instances : (gen[i].built /\ gen[i].ctor.op = "from_seed") =>
    LET s == FromLeBytes(SubSeq(gen[i].ctor.seed, 1, 8))
    IN  /\ gen[i].start = Constructed[[op |-> "seed_from_u64", seed |-> s]].rng
        /\ gen[i].start = Constructed[StreamCall(s, 0, 1)].rng
        /\ JustBuilt(i) => gen[i].start = DrawnAndWarmed(s)

\* C9 as amended. from_seed(b) yields the same generator for every content of
\* bytes 8..31: the one from_seed_for_stream(s, 0, 1) yields for s the
\* little-endian integer of b[0..8], which is the first three Seed Expander
\* outputs for s after 16 steps.  seed_from_u64(x) is from_seed of the 32
\* bytes that PCG32 expands x into, so it yields what
\* from_seed_for_stream(s', 0, 1) yields for s' the integer of the first 8
\* of those bytes, and for x = 12345 the three pinned outputs.
C9_SeedingEquivalence ==
  \A i \in Instances : gen[i].built =>
    /\ gen[i].ctor.op = "from_seed" =>
         LET s == FromLeBytes(SubSeq(gen[i].ctor.seed, 1, 8))
         IN  /\ gen[i].start = Constructed[StreamCall(s, 0, 1)].rng
             /\ \A t \in SeedTails :
                  gen[i].start =
                    Constructed[[op |-> "from_seed", seed |-> ToLeBytes(s) \o t]].rng
             /\ JustBuilt(i) => gen[i].start = DrawnAndWarmed(s)
    /\ gen[i].ctor.op = "seed_from_u64" =>
         /\ JustBuilt(i) =>
              LET s == FromLeBytes(SubSeq(Pcg32Fill(gen[i].ctor.seed, 2), 1, 8))
              IN  /\ gen[i].start = FromSeedForStream(s, NatW(0, 8), NatW(1, 8)).rng
                  /\ gen[i].start = DrawnAndWarmed(s)
         /\ ( /\ gen[i].ctor.seed = NatW(12345, 8)
              /\ gen[i].steps \in 1..Len(KnownSequence) ) =>
              gen[i].word = KnownSequence[gen[i].steps]

\* seed_from_u64(12345) has produced its third value.
C9_Witness ==
  /\ gen[1].built
  /\ gen[1].ctor = [op |-> "seed_from_u64", seed |-> NatW(12345, 8)]
  /\ gen[1].steps = 3
  /\ gen[1].word = KnownSequence[3]

\* Generators i and j are two generators built by from_seed_for_stream for
\* streams of one seed and one stream count.
SiblingStreams(i, j) ==
  /\ i # j
  /\ gen[i].built /\ gen[j].built
  /\ gen[i].ctor.op = "from_seed_for_stream"
  /\ gen[j].ctor.op = "from_seed_for_stream"
  /\ gen[i].ctor.seed = gen[j].ctor.seed
  /\ gen[i].ctor.total_streams = gen[j].ctor.total_streams

C5_StreamPlacement ==
  \A i, j \in Instances : SiblingStreams(i, j) =>
    LET ci == gen[i].ctor
        cj == gen[j].ctor
    IN  /\ gen[i].pre.mix = gen[j].pre.mix
        /\ gen[i].pre.loop_mix = gen[j].pre.loop_mix
        /\ (gen[i].steps = 0 /\ gen[j].steps = 0) =>
             gen[j].pre.fast_loop =
               AddW(gen[i].pre.fast_loop,
                    MulW(MulW(SubW(cj.stream_index, ci.stream_index),
                              DivW(MaxW(8), ci.total_streams)),
                         INCREMENT))
        /\ ci.stream_index # cj.stream_index =>
             /\ gen[i].pre.fast_loop # gen[j].pre.fast_loop
             /\ gen[i].steps = gen[j].steps =>
                  gen[i].rng.fast_loop # gen[j].rng.fast_loop

\* Streams 0 and 2 of 3 have both been stepped twice.
C5_Witness ==
  /\ SiblingStreams(1, 2)
  /\ gen[1].ctor.total_streams = NatW(3, 8)
  /\ gen[1].ctor.stream_index = NatW(0, 8)
  /\ gen[2].ctor.stream_index = NatW(2, 8)
  /\ gen[1].steps = 2 /\ gen[2].steps = 2

STREAM_TEST_SEED == <<21, 205, 91, 7, 0, 0, 0, 0>>        \* 123456789

=============================================================================
